---------------------------- MODULE Spec2Model ----------------------------
(***************************************************************************)
(* A model of ThreatyBot (src/telethreaty.py): the update poller           *)
(* (get_all_updates), the message projector                                *)
(* (get_complete_message_history), the bulk operators                      *)
(* (delete_messages_bulk, spam_messages), the file classifier              *)
(* (get_file_category) and the error boundary of the remote calls.         *)
(*                                                                         *)
(* Python strings that the code inspects character by character (file      *)
(* names, message texts) are sequences of one-character strings.           *)
(***************************************************************************)
EXTENDS Integers, Sequences, FiniteSets, Bags, TLC

VARIABLES
    \* ---- file classifier
    filename,       \* the argument of get_file_category
    category,       \* its return value, "pending" before the call
    \* ---- update poller (get_all_updates)
    ppc,            \* position: "idle", "loop", "done"
    limit,          \* argument limit
    offset_arg,     \* argument offset as passed (default 0)
    offset,         \* local offset
    all_updates,    \* local all_updates
    requests,       \* getUpdates requests issued so far: <<[offset, limit]>>
    pageLog,        \* what came back for each request, in order
    received,       \* concatenation of the results of the ok, non-empty pages
    polled,         \* the value get_all_updates returned, <<>> before
    raised,         \* TRUE iff an exception left the operation
    \* ---- message projector (get_complete_message_history)
    hpc,            \* position: "off", "poll", "info", "done"
    chat_id,        \* argument chat_id (the filter)
    can_read_all,   \* local can_read_all
    messages,       \* the returned records
    remote_flag,    \* the bot's can_read_all_group_messages setting as the
                    \* remote side holds it now
    lookup,         \* how the call's get_bot_info went: "none" before it,
                    \* then "error", "notok" or "ok"
    \* ---- bulk operators
    bop,            \* "delete" or "spam"
    start_message_id,
    count,
    bpc,            \* parent: "spawn", "join", "returned"
    bi,             \* parent loop index (spawned so far / joined so far)
    processes,      \* one record per launched process
    issued,         \* bag of the remote calls issued
    \* ---- remote-call boundary
    calls,          \* the remote calls the menu's operations made, and what
                    \* each operation handed to its caller
    mpc,            \* "menu", "monitor" (inside monitor_messages) or
                    \* "crashed" (an exception left the menu loop)
    moffset,        \* monitor_messages' local offset
    \* ---- startup (load_env_file and main)
    spc,            \* position: "off", "start", "loaded", "connect", "menu",
                    \* "exited"
    env_file,       \* the file .env: whether it exists, and its lines
    env_vars,       \* the dict load_env_file returned
    main_bot_info,  \* main's bot_info
    exit_status,    \* the process's exit status, -1 while it runs
    menu_reached,   \* TRUE iff interactive_menu was ever entered
    \* ---- the menu's delete action (choice '9')
    dpc,            \* position: "off", "choice9", "probed", "bulk", "menu",
                    \* "crashed"
    latest_id,      \* the menu's latest_id
    probe_calls     \* the remote calls of get_latest_message_id, in order

classVars  == <<filename, category>>
pollVars   == <<ppc, limit, offset_arg, offset, all_updates, requests, pageLog, received,
                polled, raised>>
histVars   == <<hpc, chat_id, can_read_all, messages, remote_flag, lookup>>
bulkVars   == <<bop, start_message_id, count, bpc, bi, processes, issued>>
remoteVars == <<calls, mpc, moffset>>
startVars  == <<spc, env_file, env_vars, main_bot_info, exit_status, menu_reached>>
menuVars   == <<dpc, latest_id, probe_calls>>
vars == <<classVars, pollVars, histVars, bulkVars, remoteVars, startVars, menuVars>>

\* The parts of the program a specification does not exercise stay here.
ClassIdle  == filename = <<>> /\ category = "pending"
PollIdle   == /\ ppc = "idle" /\ limit = 0 /\ offset_arg = 0 /\ offset = 0
              /\ all_updates = <<>>
              /\ requests = <<>> /\ pageLog = <<>> /\ received = <<>>
              /\ polled = <<>> /\ raised = FALSE
HistIdle   == /\ hpc = "off" /\ chat_id = [t |-> "none", i |-> 0, s |-> ""]
              /\ can_read_all = FALSE /\ messages = <<>>
              /\ remote_flag = FALSE /\ lookup = "none"
BulkIdle   == /\ bop = "none" /\ start_message_id = 0 /\ count = 0
              /\ bpc = "returned" /\ bi = 0 /\ processes = <<>>
              /\ issued = EmptyBag
RemoteIdle == /\ calls = <<>> /\ mpc = "menu"
              /\ moffset = [t |-> "none", i |-> 0, s |-> ""]
StartIdle  == /\ spc = "off" /\ env_file = [exists |-> FALSE, lines |-> <<>>]
              /\ env_vars = <<>>
              /\ main_bot_info = [ok |-> FALSE, has_result |-> FALSE,
                                  flag |-> "missing", error |-> FALSE]
              /\ exit_status = -1 /\ menu_reached = FALSE
MenuIdle   == /\ dpc = "off" /\ latest_id = [t |-> "none", i |-> 0, s |-> ""]
              /\ probe_calls = <<>>

-----------------------------------------------------------------------------
(***************************************************************************)
(* Strings as character sequences                                          *)
(***************************************************************************)
UpperLetters == <<"A","B","C","D","E","F","G","H","I","J","K","L","M",
                  "N","O","P","Q","R","S","T","U","V","W","X","Y","Z">>
LowerLetters == <<"a","b","c","d","e","f","g","h","i","j","k","l","m",
                  "n","o","p","q","r","s","t","u","v","w","x","y","z">>

\* str.lower() on one character
LowerChar(c) ==
    IF \E k \in 1..Len(UpperLetters) : UpperLetters[k] = c
    THEN LowerLetters[CHOOSE k \in 1..Len(UpperLetters) : UpperLetters[k] = c]
    ELSE c

\* str.lower()
Lower(s) == [k \in 1..Len(s) |-> LowerChar(s[k])]

\* the Python string a character sequence stands for
RECURSIVE Join(_)
Join(s) == IF s = <<>> THEN "" ELSE Head(s) \o Join(Tail(s))

\* str.rfind(c): the last index of c (1-based), 0 when absent
RFind(s, c) ==
    IF \E k \in 1..Len(s) : s[k] = c
    THEN CHOOSE k \in 1..Len(s) : s[k] = c /\ \A j \in (k+1)..Len(s) : s[j] # c
    ELSE 0

\* str.startswith(p)
StartsWith(s, p) == Len(s) >= Len(p) /\ SubSeq(s, 1, Len(p)) = p

-----------------------------------------------------------------------------
(***************************************************************************)
(* File classifier                                                         *)
(***************************************************************************)
\* self.file_categories, in the dict's insertion order
file_categories == <<
    [category |-> "archive",
     extensions |-> {".zip", ".7z", ".rar", ".tar", ".gz", ".gzip", ".bz2",
                     ".xz", ".lzh", ".iso"}],
    [category |-> "document",
     extensions |-> {".pdf", ".doc", ".docx", ".txt", ".rtf", ".odt", ".pages"}],
    [category |-> "code",
     extensions |-> {".py", ".js", ".java", ".cpp", ".c", ".html", ".css",
                     ".php", ".rb", ".go", ".rs"}],
    [category |-> "spreadsheet",
     extensions |-> {".xls", ".xlsx", ".csv", ".ods", ".numbers"}],
    [category |-> "presentation",
     extensions |-> {".ppt", ".pptx", ".key", ".odp"}],
    [category |-> "image",
     extensions |-> {".jpg", ".jpeg", ".png", ".gif", ".bmp", ".tiff", ".webp",
                     ".svg"}],
    [category |-> "audio",
     extensions |-> {".mp3", ".wav", ".ogg", ".flac", ".m4a", ".aac"}],
    [category |-> "video",
     extensions |-> {".mp4", ".avi", ".mov", ".wmv", ".flv", ".webm", ".mkv"}],
    [category |-> "executable",
     extensions |-> {".exe", ".msi", ".dmg", ".pkg", ".deb", ".rpm", ".apk"}],
    [category |-> "config",
     extensions |-> {".json", ".xml", ".yaml", ".yml", ".ini", ".conf", ".cfg"}] >>

\* os.path.splitext(p)[1]: the text from the last '.' on, when that '.' lies
\* after the last '/' and some character other than '.' stands between them;
\* the empty string otherwise (leading dots of the last component are no
\* extension).
RECURSIVE SplitextScan(_, _, _)
SplitextScan(p, filenameIndex, dotIndex) ==
    IF filenameIndex < dotIndex
    THEN IF p[filenameIndex] # "."
         THEN SubSeq(p, dotIndex, Len(p))
         ELSE SplitextScan(p, filenameIndex + 1, dotIndex)
    ELSE <<>>

splitext_ext(p) ==
    LET sepIndex == RFind(p, "/")
        dotIndex == RFind(p, ".")
    IN  IF dotIndex > sepIndex
        THEN SplitextScan(p, sepIndex + 1, dotIndex)
        ELSE <<>>

\* the for loop of get_file_category from table entry k on
RECURSIVE CategoryFrom(_, _)
CategoryFrom(ext, k) ==
    IF k > Len(file_categories) THEN "other"
    ELSE IF ext \in file_categories[k].extensions
         THEN file_categories[k].category
         ELSE CategoryFrom(ext, k + 1)

get_file_category_nolower(name) ==
    IF name = <<>> THEN "unknown"
    ELSE CategoryFrom(Join(splitext_ext(name)), 1)

get_file_category(name) ==
    IF name = <<>> THEN "unknown"
    ELSE CategoryFrom(Join(Lower(splitext_ext(name))), 1)

\* The file names tried: every name of at most MaxNameLen characters over
\* NameAlphabet, and the names the documentation gives as examples.
MaxNameLen == 4
NameAlphabet == {".", "/", "g", "z", "G", "c"}
RECURSIVE NamesOfLen(_)
NamesOfLen(n) ==
    IF n = 0 THEN {<<>>}
    ELSE {Append(s, c) : s \in NamesOfLen(n - 1), c \in NameAlphabet}
ReportPDF == <<"r","e","p","o","r","t",".","P","D","F">>
ArchiveTarGz == <<"a","r","c","h","i","v","e",".","t","a","r",".","g","z">>
NoExt == <<"n","o","e","x","t">>
Filenames ==
    UNION {NamesOfLen(n) : n \in 0..MaxNameLen}
        \cup {ReportPDF, ArchiveTarGz, NoExt}

ClassifyInit ==
    /\ filename \in Filenames
    /\ category = "pending"
    /\ PollIdle /\ HistIdle /\ BulkIdle /\ RemoteIdle /\ StartIdle /\ MenuIdle

\* category = get_file_category(filename)
Classify ==
    /\ category = "pending"
    /\ category' = get_file_category(filename)
    /\ UNCHANGED <<filename, pollVars, histVars, bulkVars, remoteVars, startVars, menuVars>>

ClassifyNext == Classify
SpecClassify == ClassifyInit /\ [][ClassifyNext]_vars

\* the category whose extension list holds the dotted extension e, else "other"
TableCategory(e) ==
    IF \E k \in 1..Len(file_categories) : e \in file_categories[k].extensions
    THEN file_categories[CHOOSE k \in 1..Len(file_categories) :
                             e \in file_categories[k].extensions].category
    ELSE "other"

\* the last path component of a name (the text after its last '/')
LastComponent(name) == SubSeq(name, RFind(name, "/") + 1, Len(name))

\* a name has an extension when the last '.' of its last path component has a
\* character other than '.' somewhere before it in that component
HasExtension(name) ==
    LET comp == LastComponent(name)
        d == RFind(comp, ".")
    IN  d > 0 /\ \E j \in 1..(d - 1) : comp[j] # "."

\* the text after the last '.' of a name
AfterLastDot(name) == SubSeq(name, RFind(name, ".") + 1, Len(name))

\* C9 as stated: 'unknown' for the empty name, otherwise the category of the
\* lowercased text after the last '.' of the name, 'other' when there is no '.'
\* or no list holds it.
C9_AsStated ==
    category # "pending" =>
        category = IF filename = <<>> THEN "unknown"
                   ELSE IF RFind(filename, ".") = 0 THEN "other"
                   ELSE TableCategory("." \o Join(Lower(AfterLastDot(filename))))

\* C9 amended: get_file_category is total and returns 'unknown' for the empty
\* name, otherwise the category whose list holds the lowercased extension,
\* where a name has an extension only when the last '.' of its last path
\* component is preceded in that component by a character other than '.' (the
\* extension is then the text after that '.'), and 'other' when the name has
\* no extension or no list holds it.
C9_Category ==
    category # "pending" =>
        /\ category \in {"unknown", "other"}
               \cup {file_categories[k].category : k \in 1..Len(file_categories)}
        /\ category = IF filename = <<>> THEN "unknown"
                      ELSE IF ~HasExtension(filename) THEN "other"
                      ELSE TableCategory(
                               "." \o Join(Lower(AfterLastDot(filename))))
        /\ filename = ReportPDF => category = "document"
        /\ filename = ArchiveTarGz => category = "archive"
        /\ filename = NoExt => category = "other"

\* C9 witness: an upper-case extension has been classified by the table
C9_Witness == filename = ReportPDF /\ category = "document"

-----------------------------------------------------------------------------
(***************************************************************************)
(* Updates and messages                                                    *)
(*                                                                         *)
(* A dict that may lack a key is a record with a has_ flag or a kind:      *)
(* kind "absent" is a missing key, "empty" the empty dict {}, "msg" a      *)
(* message.  sender is "none" when the message has no 'from' key.          *)
(***************************************************************************)
AbsentMsg == [kind |-> "absent", has_text |-> FALSE, text |-> <<>>,
              has_reply |-> FALSE, chat_id |-> 0, chat_type |-> "",
              sender |-> "none", date |-> 0]
EmptyMsg  == [AbsentMsg EXCEPT !.kind = "empty"]

Msg(hasText, text, hasReply, chatId, chatType, sender, date) ==
    [kind |-> "msg", has_text |-> hasText, text |-> text,
     has_reply |-> hasReply, chat_id |-> chatId, chat_type |-> chatType,
     sender |-> sender, date |-> date]

Update(id, message, channel_post) ==
    [update_id |-> id, message |-> message, channel_post |-> channel_post]

\* bool(d) of a dict d
DictTruthy(m) == m.kind = "msg"

\* d.get(key, {}) of a dict value that may be missing
GetOrEmpty(m) == IF m.kind = "absent" THEN EmptyMsg ELSE m

Min(a, b) == IF a < b THEN a ELSE b

-----------------------------------------------------------------------------
(***************************************************************************)
(* Update poller: get_all_updates                                          *)
(***************************************************************************)
\* the page size of the getUpdates loop
MaxPageSize == 100

\* 'limit': min(100, limit - len(all_updates))
PageLimit_unclamped(lim, n) == lim - n
PageLimit(lim, n) == Min(MaxPageSize, lim - n)

\* offset = batch_updates[-1]['update_id'] + 1
NextOffset_first(batch) == batch[1].update_id + 1
NextOffset(batch) == batch[Len(batch)].update_id + 1

\* if not data['ok'] or not data['result']: break
PageBreaks(data) == data.kind # "ok" \/ data.result = <<>>

\* if len(all_updates) >= limit or len(batch_updates) < 100: break
StopAfter_limitonly(all, lim, batch) == Len(all) >= lim
StopAfter(all, lim, batch) == Len(all) >= lim \/ Len(batch) < MaxPageSize

\* except Exception as e: print(...); then return all_updates
OnFetchError_reraise(acc) == [returns |-> <<>>, raised |-> TRUE]
OnFetchError(acc) == [returns |-> acc, raised |-> FALSE]

\* One pass of the while loop with the response the request got: a transport
\* error (kind "error": requests.get or response.json() raised), ok=false
\* (kind "notok") or ok=true with a result list (kind "ok").  requests,
\* pageLog and received record what the remote side saw and sent.
PollStep(resp) ==
    /\ ppc = "loop"
    /\ requests' = Append(requests,
                      [offset |-> offset,
                       limit |-> PageLimit(limit, Len(all_updates))])
    /\ pageLog' = Append(pageLog,
                      [kind |-> resp.kind, size |-> Len(resp.result),
                       last |-> IF resp.result = <<>> THEN 0
                                ELSE resp.result[Len(resp.result)].update_id])
    /\ received' = IF resp.kind = "ok" THEN received \o resp.result
                   ELSE received
    /\ IF resp.kind = "error"
       THEN /\ polled' = OnFetchError(all_updates).returns
            /\ raised' = OnFetchError(all_updates).raised
            /\ ppc' = "done"
            /\ UNCHANGED <<all_updates, offset>>
       ELSE IF PageBreaks(resp)
       THEN /\ polled' = all_updates
            /\ ppc' = "done"
            /\ UNCHANGED <<all_updates, offset, raised>>
       ELSE LET batch_updates == resp.result
                extended == all_updates \o batch_updates
            IN  /\ all_updates' = extended
                /\ offset' = NextOffset(batch_updates)
                /\ IF StopAfter(extended, limit, batch_updates)
                   THEN ppc' = "done" /\ polled' = extended
                   ELSE ppc' = "loop" /\ polled' = polled
                /\ UNCHANGED raised
    /\ UNCHANGED <<limit, offset_arg>>

\* ---- the remote side of the poller specification
\* The largest limit polled with.
MaxLimit == 1000
Limits == {1, 37, 100, 150, 250, MaxLimit}
\* by how much the first update_id of a page may exceed the offset asked for
Gaps == {0, 5}
\* the page sizes the source answers with, never more than was asked for
SizesFor(pageLimit) == {n \in {0, 1, 37, 99, 100} : n <= pageLimit} \cup {pageLimit}

\* the update the remote history holds under an id
HistoryUpdate(id) ==
    Update(id,
           Msg(TRUE, <<"h","i">>, FALSE, -100, "group", "user", 1000 + id),
           AbsentMsg)

Page(first, size) == [k \in 1..size |-> HistoryUpdate(first + k - 1)]

\* the limits under which the source is also let answer with one update more
\* than the request asked for
OverLimits == {0, 37, 150, 250}

\* the calls tried: <<limit, offset>>
PollInputs == ((Limits \cup OverLimits) \X {0}) \cup ({1, 150} \X {40})

PollInit ==
    /\ ppc = "loop"
    /\ \E in \in PollInputs : limit = in[1] /\ offset_arg = in[2]
    /\ offset = offset_arg
    /\ all_updates = <<>> /\ requests = <<>> /\ pageLog = <<>>
    /\ received = <<>> /\ polled = <<>> /\ raised = FALSE
    /\ ClassIdle /\ HistIdle /\ BulkIdle /\ RemoteIdle /\ StartIdle /\ MenuIdle

PollTransportError ==
    /\ hpc = "off"
    /\ PollStep([kind |-> "error", result |-> <<>>])
    /\ UNCHANGED <<classVars, histVars, bulkVars, remoteVars, startVars, menuVars>>

PollNotOk ==
    /\ hpc = "off"
    /\ PollStep([kind |-> "notok", result |-> <<>>])
    /\ UNCHANGED <<classVars, histVars, bulkVars, remoteVars, startVars, menuVars>>

PollPage ==
    /\ hpc = "off"
    /\ ppc = "loop"
    /\ \E gap \in Gaps, size \in SizesFor(PageLimit(limit, Len(all_updates))) :
           PollStep([kind |-> "ok", result |-> Page(offset + gap, size)])
    /\ UNCHANGED <<classVars, histVars, bulkVars, remoteVars, startVars, menuVars>>

\* a source that does not keep to the 'limit' parameter of the request
PollOverPage ==
    /\ hpc = "off"
    /\ ppc = "loop"
    /\ limit \in OverLimits
    /\ PollStep([kind |-> "ok",
                 result |-> Page(offset, PageLimit(limit, Len(all_updates)) + 1)])
    /\ UNCHANGED <<classVars, histVars, bulkVars, remoteVars, startVars, menuVars>>

PollNext == PollTransportError \/ PollNotOk \/ PollPage \/ PollOverPage
SpecPoll == PollInit /\ [][PollNext]_vars

\* ---- what the remote side saw, computed from its own log
\* page k is a successful page with updates in it
GoodPage(k) == pageLog[k].kind = "ok" /\ pageLog[k].size > 0

RECURSIVE SizeSum(_)
\* the number of updates the first k pages delivered
SizeSum(k) == IF k = 0 THEN 0
              ELSE SizeSum(k - 1) + (IF GoodPage(k) THEN pageLog[k].size ELSE 0)

\* the offset the code should hold after the first k pages
OffsetAfter(k) ==
    IF \E j \in 1..k : GoodPage(j)
    THEN pageLog[CHOOSE j \in 1..k :
                     GoodPage(j) /\ \A i \in (j+1)..k : ~GoodPage(i)].last + 1
    ELSE offset_arg

\* C3: the first getUpdates request carries the starting offset, every later
\* one the update_id of the last update of the page just before it plus 1, and
\* a failed or empty page leaves the offset as it was.
C3_OffsetChain ==
    /\ Len(pageLog) \in {Len(requests), Len(requests) - 1}
    /\ \A k \in 1..Len(requests) :
          /\ k = 1 => requests[k].offset = offset_arg
          /\ k > 1 => /\ GoodPage(k - 1)
                      /\ requests[k].offset = pageLog[k - 1].last + 1
    /\ offset = OffsetAfter(Len(pageLog))

\* C3 witness: a third request went out after two full pages, the second of
\* which began past the offset asked for
C3_Witness ==
    /\ Len(requests) >= 3
    /\ requests[3].offset > requests[1].offset + 2 * MaxPageSize

\* page k is one after which the loop must stop
Stops(k) ==
    \/ pageLog[k].kind = "notok"
    \/ pageLog[k].size = 0
    \/ pageLog[k].size < MaxPageSize
    \/ SizeSum(k) >= limit

\* C4: polling goes on past no page that reaches the limit, is shorter than
\* 100, is empty or reports ok=false; it ends at the first such page (or at a
\* transport error), with no request after it, and returns the successful
\* pages concatenated in order.  Pages of 100, 100 and 37 under limit 1000
\* give 237 updates after three requests.
C4_Termination ==
    /\ \A k \in 1..(Len(requests) - 1) : pageLog[k].kind = "ok" /\ ~Stops(k)
    /\ ppc = "loop" => /\ Len(pageLog) = Len(requests)
                       /\ \A k \in 1..Len(pageLog) : ~Stops(k)
    /\ ppc = "done" =>
          /\ Len(requests) = Len(pageLog) /\ Len(pageLog) >= 1
          /\ pageLog[Len(pageLog)].kind = "error" \/ Stops(Len(pageLog))
          /\ polled = received
          /\ Len(polled) = SizeSum(Len(pageLog))
          /\ (/\ limit = 1000
              /\ [k \in 1..Len(pageLog) |-> pageLog[k].size] = <<100, 100, 37>>)
                 => Len(polled) = 237 /\ Len(requests) = 3

\* C4 witness: the documented run, pages of 100, 100 and 37 under limit 1000
C4_Witness ==
    /\ ppc = "done" /\ limit = 1000
    /\ [k \in 1..Len(pageLog) |-> pageLog[k].size] = <<100, 100, 37>>
    /\ Len(polled) = 237

\* C5: a transport error on a page request ends the loop at once: it is the
\* last request, nothing is raised to the caller, and the updates of the
\* pages before it are returned (none when the first request failed).
C5_TransportError ==
    /\ ~raised
    /\ \A k \in 1..Len(pageLog) :
          pageLog[k].kind = "error" =>
              /\ k = Len(pageLog) /\ k = Len(requests)
              /\ ppc = "done"
              /\ polled = received /\ polled = all_updates
              /\ Len(polled) = SizeSum(k - 1)
              /\ k = 1 => polled = <<>>

\* C5 witness: the third request failed after two pages had been kept
C5_Witness ==
    /\ Len(pageLog) = 3 /\ pageLog[3].kind = "error"
    /\ Len(polled) = 2 * MaxPageSize

\* the source kept to every request so far: no page held more updates than
\* the request's 'limit' asked for
SourceKeptLimit ==
    \A k \in 1..Len(pageLog) : pageLog[k].size <= requests[k].limit

CeilDiv(a, b) == (a + b - 1) \div b

\* C15: for a limit above 0 and a source that never answers with more updates
\* than asked for, every page request asks for a size in 1..100 that equals
\* min(100, limit - number accumulated so far), the number accumulated never
\* exceeds the limit, and at most ceil(limit / 100) requests are made.
C15_PageRequests ==
    (limit > 0 /\ SourceKeptLimit) =>
        /\ \A k \in 1..Len(requests) :
              /\ requests[k].limit \in 1..100
              /\ requests[k].limit = Min(100, limit - SizeSum(k - 1))
        /\ Len(all_updates) <= limit
        /\ Len(polled) <= limit
        /\ Len(requests) <= CeilDiv(limit, 100)

\* C15 witness: under limit 150 the second request asked for the 50 updates
\* still missing and the call returned exactly 150
C15_Witness ==
    /\ ppc = "done" /\ limit = 150 /\ SourceKeptLimit
    /\ Len(requests) = 2
    /\ requests[1].limit = 100 /\ requests[2].limit = 50
    /\ Len(polled) = 150

-----------------------------------------------------------------------------
(***************************************************************************)
(* Message projector: get_complete_message_history                         *)
(***************************************************************************)
\* ---- Python values of the chat_id argument: None, an int or a str
NoneVal    == [t |-> "none", i |-> 0, s |-> ""]
IntVal(n)  == [t |-> "int", i |-> n, s |-> ""]
StrVal(st) == [t |-> "str", i |-> 0, s |-> st]

Digits == <<"0", "1", "2", "3", "4", "5", "6", "7", "8", "9">>
RECURSIVE NatToStr(_)
NatToStr(n) == IF n < 10 THEN Digits[n + 1]
               ELSE NatToStr(n \div 10) \o Digits[(n % 10) + 1]
\* str(n) of an int
IntToStr(n) == IF n < 0 THEN "-" \o NatToStr(-n) ELSE NatToStr(n)

\* str(v)
Str(v) == IF v.t = "int" THEN IntToStr(v.i)
          ELSE IF v.t = "str" THEN v.s ELSE "None"

\* bool(v): None, 0 and '' are false
Truthy(v) == (v.t = "int" /\ v.i # 0) \/ (v.t = "str" /\ v.s # "")

\* message = update.get('message', {}) or update.get('channel_post', {})
ExtractMessage_nochannel(update) == GetOrEmpty(update.message)
ExtractMessage(update) ==
    IF DictTruthy(GetOrEmpty(update.message))
    THEN GetOrEmpty(update.message)
    ELSE GetOrEmpty(update.channel_post)

\* if chat_id and str(message['chat']['id']) != str(chat_id): continue
ChatFilterSkips(cid, message) ==
    Truthy(cid) /\ IntToStr(message.chat_id) # Str(cid)

\* message.get('text', '')
TextOf(message) == IF message.has_text THEN message.text ELSE <<>>

\* is_visible: a command, a reply or a private chat
IsVisible_noprivate(message) ==
    \/ StartsWith(TextOf(message), <<"/">>)
    \/ message.has_reply
IsVisible(message) ==
    \/ StartsWith(TextOf(message), <<"/">>)
    \/ message.has_reply
    \/ message.chat_type = "private"

\* message.get('from', {}).get('is_bot', False)
IsBot_defaulttrue(message) == message.sender # "user"
IsBot(message) == message.sender = "bot"

\* the dict appended to messages
Record_noreply(update, message) ==
    [update_id |-> update.update_id,
     message   |-> [message EXCEPT !.has_reply = FALSE],
     timestamp |-> message.date,
     is_bot    |-> IsBot(message),
     direction |-> IF IsBot(message) THEN "SENT" ELSE "RECEIVED"]
Record(update, message) ==
    [update_id |-> update.update_id,
     message   |-> message,
     timestamp |-> message.date,
     is_bot    |-> IsBot(message),
     direction |-> IF IsBot(message) THEN "SENT" ELSE "RECEIVED"]

\* the body of the for loop for one update: the records it appends
ProjectOne(update, cid, cra) ==
    LET message == ExtractMessage(update)
    IN  IF ~DictTruthy(message) THEN <<>>
        ELSE IF ChatFilterSkips(cid, message) THEN <<>>
        ELSE IF ~cra /\ ~IsVisible(message) THEN <<>>
        ELSE <<Record(update, message)>>

\* the for loop over all_updates
RECURSIVE Project_dedup(_, _, _)
Project_dedup(updates, cid, cra) ==
    IF updates = <<>> THEN <<>>
    ELSE ProjectOne(Head(updates), cid, cra)
             \o Project_dedup(SelectSeq(Tail(updates),
                                  LAMBDA u : u.update_id # Head(updates).update_id),
                              cid, cra)
RECURSIVE Project(_, _, _)
Project(updates, cid, cra) ==
    IF updates = <<>> THEN <<>>
    ELSE ProjectOne(Head(updates), cid, cra) \o Project(Tail(updates), cid, cra)

\* get_bot_info(): the parsed response, or {'ok': False, 'error': ...} when
\* the request raised.  flag is "true", "false" or "missing" (no such key).
get_bot_info(resp) ==
    IF resp.kind = "error"
    THEN [ok |-> FALSE, has_result |-> FALSE, flag |-> "missing", error |-> TRUE]
    ELSE [ok |-> resp.kind = "ok", has_result |-> resp.kind = "ok",
          flag |-> resp.flag, error |-> FALSE]

\* bot_info.get('result', {}).get('can_read_all_group_messages', False)
CanReadAll_defaulttrue(bot_info) == bot_info.flag # "false"
CanReadAll(bot_info) == bot_info.has_result /\ bot_info.flag = "true"

\* ---- the remote side of the projector specification
BotInfoResponses ==
    {[kind |-> "error", flag |-> "missing"], [kind |-> "notok", flag |-> "missing"]}
        \cup {[kind |-> "ok", flag |-> f] : f \in {"true", "false", "missing"}}

\* what getMe may answer while the remote setting is flag: the key is there
\* with the setting's value, or (setting off) left out
BotInfoAnswers(flag) ==
    {r \in BotInfoResponses : r.kind = "ok" => ((r.flag = "true") <=> flag)}

Start == <<"/","s","t","a","r","t">>
Hello == <<"h","e","l","l","o">>
\* messages of users and of the bot in a private chat and in a group: with
\* and without a text, a command or not, a reply or not
ChatMessages ==
    {Msg(ht, IF ht THEN tx ELSE <<>>, rp, ch[1], ch[2], sd, 1000) :
        ht \in BOOLEAN, tx \in {Start, Hello}, rp \in BOOLEAN,
        ch \in {<<5, "private">>, <<-100, "group">>}, sd \in {"bot", "user"}}
\* channel posts carry no sender
ChannelPosts ==
    {Msg(TRUE, tx, FALSE, -200, "channel", "none", 2000) : tx \in {Start, Hello}}
\* what an update may hold in its message and channel_post fields
UpdateContents ==
    {<<m, AbsentMsg>> : m \in ChatMessages}
        \cup {<<AbsentMsg, c>> : c \in ChannelPosts}
        \cup {<<AbsentMsg, AbsentMsg>>, <<EmptyMsg, EmptyMsg>>}
        \cup {<<EmptyMsg, Msg(TRUE, Hello, FALSE, -200, "channel", "none", 2000)>>,
              <<Msg(TRUE, Hello, FALSE, 5, "private", "user", 1000),
                Msg(TRUE, Start, FALSE, -200, "channel", "none", 2000)>>}

\* The longest page the history source answers with.
MaxUpdates == 2
RECURSIVE ContentsOfLen(_)
ContentsOfLen(n) ==
    IF n = 0 THEN {<<>>}
    ELSE {Append(q, c) : q \in ContentsOfLen(n - 1), c \in UpdateContents}
\* a page of updates with ids from first on
SmallPage(first, contents) ==
    [k \in 1..Len(contents) |->
        Update(first + k - 1, contents[k][1], contents[k][2])]

\* the chat_id arguments tried
Filters == {NoneVal, IntVal(5), StrVal("5"), StrVal("-100"), IntVal(0)}

\* get_complete_message_history(chat_id, limit=1000) has called
\* get_all_updates(limit=limit), which is about to enter its loop
HistInit ==
    /\ hpc = "poll"
    /\ chat_id \in Filters
    /\ can_read_all = FALSE /\ messages = <<>>
    /\ remote_flag = FALSE /\ lookup = "none"
    /\ ppc = "loop" /\ limit = 1000 /\ offset_arg = 0 /\ offset = 0
    /\ all_updates = <<>> /\ requests = <<>> /\ pageLog = <<>>
    /\ received = <<>> /\ polled = <<>> /\ raised = FALSE
    /\ ClassIdle /\ BulkIdle /\ RemoteIdle /\ StartIdle /\ MenuIdle

HistPollError ==
    /\ hpc = "poll"
    /\ PollStep([kind |-> "error", result |-> <<>>])
    /\ UNCHANGED <<classVars, histVars, bulkVars, remoteVars, startVars, menuVars>>

HistPollNotOk ==
    /\ hpc = "poll"
    /\ PollStep([kind |-> "notok", result |-> <<>>])
    /\ UNCHANGED <<classVars, histVars, bulkVars, remoteVars, startVars, menuVars>>

HistPollPage ==
    /\ hpc = "poll"
    /\ ppc = "loop"
    /\ \E n \in 0..Min(MaxUpdates, PageLimit(limit, Len(all_updates))) :
         \E contents \in ContentsOfLen(n) :
           PollStep([kind |-> "ok", result |-> SmallPage(offset, contents)])
    /\ UNCHANGED <<classVars, histVars, bulkVars, remoteVars, startVars, menuVars>>

\* after get_all_updates returned: the bot metadata lookup and the for loop
HistProject ==
    /\ hpc = "poll" /\ ppc = "done"
    /\ \E resp \in BotInfoAnswers(remote_flag) :
          /\ lookup' = resp.kind
          /\ can_read_all' = CanReadAll(get_bot_info(resp))
          /\ messages' = Project(polled, chat_id, can_read_all')
    /\ hpc' = "done"
    /\ UNCHANGED <<chat_id, remote_flag, classVars, pollVars, bulkVars, remoteVars,
                   startVars, menuVars>>

\* the bot's owner switches the privacy setting while the call is under way
AdminToggle ==
    /\ hpc = "poll"
    /\ remote_flag' = ~remote_flag
    /\ UNCHANGED <<hpc, chat_id, can_read_all, messages, lookup,
                   classVars, pollVars, bulkVars, remoteVars, startVars, menuVars>>

HistNext ==
    HistPollError \/ HistPollNotOk \/ HistPollPage \/ AdminToggle \/ HistProject
SpecHist == HistInit /\ [][HistNext]_vars

\* ---- a source that delivers an update more than once
\* The longest page with repeated updates.
MaxRepeatPage == 3
\* the updates such a page is made of: a command and a plain text of the
\* group, a private message of the bot, a channel post, an update without
\* message
RepeatContents ==
    {<<Msg(TRUE, Start, FALSE, -100, "group", "user", 1000), AbsentMsg>>,
     <<Msg(TRUE, Hello, FALSE, -100, "group", "user", 1000), AbsentMsg>>,
     <<Msg(TRUE, Hello, FALSE, 5, "private", "bot", 1000), AbsentMsg>>,
     <<AbsentMsg, Msg(TRUE, Hello, FALSE, -200, "channel", "none", 2000)>>,
     <<AbsentMsg, AbsentMsg>>}
\* a page that holds the two updates first and first + 1 in the order and
\* as many times as slots says
RepeatPage(first, pair, slots) ==
    [k \in 1..Len(slots) |->
        Update(first + slots[k] - 1, pair[slots[k]][1], pair[slots[k]][2])]

HistPollRepeated ==
    /\ hpc = "poll"
    /\ ppc = "loop"
    /\ \E n \in 1..MaxRepeatPage :
         \E slots \in [1..n -> 1..2], pair \in RepeatContents \X RepeatContents :
           PollStep([kind |-> "ok", result |-> RepeatPage(offset, pair, slots)])
    /\ UNCHANGED <<classVars, histVars, bulkVars, remoteVars, startVars, menuVars>>

HistRepeatNext == HistPollRepeated \/ AdminToggle \/ HistProject
SpecHistRepeat == HistInit /\ [][HistRepeatNext]_vars

\* ---- the polled updates as the claims speak of them
\* the message an update contains, in its message or its channel_post field
ContainedMessage(u) == IF u.message.kind = "msg" THEN u.message ELSE u.channel_post
HasMessage(u) == ContainedMessage(u).kind = "msg"
\* the number of returned records that carry an update_id
RecordsFor(id) ==
    Cardinality({k \in 1..Len(messages) : messages[k].update_id = id})
\* a command, a reply, or a message of a private chat
Visible(m) ==
    \/ m.has_text /\ Len(m.text) > 0 /\ m.text[1] = "/"
    \/ m.has_reply
    \/ m.chat_type = "private"
\* the message's chat id equals the filter, both written as strings
MatchesFilter(m) == IntToStr(m.chat_id) = Str(chat_id)

\* C1: with can_read_all false, a message that passed the empty-message and
\* chat-id checks yields a record iff its text starts with '/', it is a reply
\* or its chat is private: '/start' is kept, 'hello' in a non-private chat
\* without a reply is dropped, anything in a private chat is kept, and a
\* message without text is judged by the reply and private conditions alone.
C1_VisibilityFilter ==
    (hpc = "done" /\ ~can_read_all) =>
        \A k \in 1..Len(polled) :
            LET u == polled[k]
                m == ContainedMessage(u)
                emitted == RecordsFor(u.update_id) > 0
            IN  HasMessage(u) =>
                  /\ emitted => Visible(m)
                  /\ (chat_id = NoneVal \/ MatchesFilter(m)) =>
                        /\ emitted <=> Visible(m)
                        /\ (m.has_text /\ m.text = Start) => emitted
                        /\ (/\ m.has_text /\ m.text = Hello /\ ~m.has_reply
                            /\ m.chat_type # "private") => ~emitted
                        /\ m.chat_type = "private" => emitted
                        /\ ~m.has_text =>
                              (emitted <=> (m.has_reply \/ m.chat_type = "private"))

\* C1 witness: under the filter "-100" and without the capability, a 'hello'
\* of the group was dropped and a '/start' of the group kept
C1_Witness ==
    /\ hpc = "done" /\ ~can_read_all /\ chat_id = StrVal("-100")
    /\ Len(polled) = 2 /\ Len(messages) = 1
    /\ polled[1].message = Msg(TRUE, Hello, FALSE, -100, "group", "user", 1000)
    /\ polled[2].message = Msg(TRUE, Start, FALSE, -100, "group", "user", 1000)
    /\ messages[1].update_id = polled[2].update_id

\* C2: no record is ever returned for an update whose message is absent or
\* empty, and without a chat-id filter and with can_read_all true every update
\* that contains a message (in message or channel_post) gives exactly one
\* record, so the records are as many as the updates with a message.
C2_OneRecordPerMessage ==
    hpc = "done" =>
        /\ \A j \in 1..Len(messages) :
              /\ messages[j].message.kind = "msg"
              /\ \E k \in 1..Len(polled) :
                    /\ polled[k].update_id = messages[j].update_id
                    /\ HasMessage(polled[k])
                    /\ messages[j].message = ContainedMessage(polled[k])
        /\ (chat_id = NoneVal /\ can_read_all) =>
              /\ Len(messages) =
                    Cardinality({k \in 1..Len(polled) : HasMessage(polled[k])})
              /\ \A k \in 1..Len(polled) :
                    RecordsFor(polled[k].update_id) =
                        IF HasMessage(polled[k]) THEN 1 ELSE 0

\* C2 witness: of two updates, the one whose message is the empty dict and
\* whose channel_post is a post gave a record and the one without gave none
C2_Witness ==
    /\ hpc = "done" /\ chat_id = NoneVal /\ can_read_all
    /\ Len(polled) = 2 /\ Len(messages) = 1
    /\ polled[1].message = AbsentMsg /\ polled[1].channel_post = AbsentMsg
    /\ polled[2].message = EmptyMsg /\ polled[2].channel_post.kind = "msg"
    /\ messages[1].update_id = polled[2].update_id

\* C10: whenever a chat-id filter is given (any value but None, the integer 0
\* included), every returned record's chat id equals the filter as strings,
\* so every message of another chat was skipped.
C10_AsStated ==
    (hpc = "done" /\ chat_id # NoneVal) =>
        \A j \in 1..Len(messages) : MatchesFilter(messages[j].message)

\* C12: a returned record has direction SENT exactly when its message's
\* sender has is_bot true and RECEIVED otherwise, also when the message has no
\* sender (a channel post); its is_bot agrees with its direction, and its
\* update_id and timestamp are the source update's update_id and the
\* message's date.
C12_Direction ==
    hpc = "done" =>
        \A j \in 1..Len(messages) :
            LET r == messages[j]
            IN  /\ r.direction \in {"SENT", "RECEIVED"}
                /\ r.direction = "SENT" <=> r.message.sender = "bot"
                /\ r.message.sender = "none" => r.direction = "RECEIVED"
                /\ r.is_bot <=> r.direction = "SENT"
                /\ \E k \in 1..Len(polled) :
                      /\ r.update_id = polled[k].update_id
                      /\ r.message = ContainedMessage(polled[k])
                      /\ r.timestamp = ContainedMessage(polled[k]).date

\* C12 witness: a message of the bot came out SENT and a channel post, which
\* has no sender, RECEIVED
C12_Witness ==
    /\ hpc = "done" /\ Len(messages) = 2
    /\ messages[1].message.sender = "bot" /\ messages[1].direction = "SENT"
    /\ messages[2].message.sender = "none" /\ messages[2].direction = "RECEIVED"
    /\ messages[2].timestamp = 2000

\* the returned records read again as updates: each has the keys 'update_id'
\* and 'message' the loop looks at
AsUpdates(records) ==
    [j \in 1..Len(records) |->
        Update(records[j].update_id, records[j].message, AbsentMsg)]

\* C14: the visibility filter is idempotent: run again over the messages it
\* kept, with the same can_read_all, it keeps them all, so filtering twice
\* gives the same messages as filtering once.
C14_Idempotent ==
    hpc = "done" =>
        LET again == Project(AsUpdates(messages), chat_id, can_read_all)
        IN  /\ again = messages
            /\ {again[j].message : j \in 1..Len(again)}
                   = {messages[j].message : j \in 1..Len(messages)}

\* C14 witness: without the capability the filter dropped one of two messages
\* and kept a reply of the group
C14_Witness ==
    /\ hpc = "done" /\ ~can_read_all /\ chat_id = NoneVal
    /\ Len(polled) = 2 /\ Len(messages) = 1
    /\ messages[1].message = Msg(TRUE, Hello, TRUE, -100, "group", "user", 1000)

\* the number of times an update occurs among the polled updates
Occurrences(u) == Cardinality({k \in 1..Len(polled) : polled[k] = u})
\* an update passes the filters of the call
Passes(u) ==
    /\ HasMessage(u)
    /\ chat_id = NoneVal \/ MatchesFilter(ContainedMessage(u))
    /\ can_read_all \/ Visible(ContainedMessage(u))
\* the positions among the polled updates the records come from, one after
\* the other
IsOrderKeeping(f) ==
    /\ \A j \in 1..Len(messages) :
          /\ messages[j].update_id = polled[f[j]].update_id
          /\ messages[j].message = ContainedMessage(polled[f[j]])
    /\ \A i, j \in 1..Len(messages) : i < j => f[i] < f[j]

\* C13: the records come in the same relative order as the updates they were
\* made from, and nothing is deduplicated by update_id: an update that occurs
\* k times among the polled updates and passes the filters gives exactly k
\* records.
C13_OrderNoDedup ==
    hpc = "done" =>
        /\ \E f \in [1..Len(messages) -> 1..Len(polled)] : IsOrderKeeping(f)
        /\ \A k \in 1..Len(polled) :
              Passes(polled[k]) =>
                  RecordsFor(polled[k].update_id) = Occurrences(polled[k])

\* C13 witness: the source delivered a command, a channel post and the same
\* command again; the records are those three, the command twice
C13_Witness ==
    /\ hpc = "done" /\ chat_id = NoneVal /\ can_read_all
    /\ Len(polled) = 3 /\ polled[1] = polled[3] /\ polled[1] # polled[2]
    /\ Passes(polled[1]) /\ Passes(polled[2])
    /\ Len(messages) = 3
    /\ messages[1].update_id = polled[1].update_id
    /\ messages[2].update_id = polled[2].update_id
    /\ messages[3].update_id = polled[1].update_id

\* C16: the bot lookup is made once polling has returned.  When it fails (a
\* transport error or no result) can_read_all is false and the visibility
\* filter is applied to every update; the filter is skipped only when the
\* lookup returned can_read_all_group_messages true; and the one value looked
\* up then governs every update of the call, whatever the remote setting was
\* while the pages were polled.
C16_SingleFlag ==
    /\ hpc = "poll" => lookup = "none" /\ ~can_read_all /\ messages = <<>>
    /\ hpc = "done" =>
          /\ lookup \in {"error", "notok", "ok"}
          /\ lookup \in {"error", "notok"} => ~can_read_all
          /\ can_read_all <=> (lookup = "ok" /\ remote_flag)
          /\ ~can_read_all => \A j \in 1..Len(messages) : Visible(messages[j].message)
          /\ \A k \in 1..Len(polled) :
                LET m == ContainedMessage(polled[k])
                    emitted == RecordsFor(polled[k].update_id) > 0
                IN  HasMessage(polled[k]) =>
                      /\ emitted => (can_read_all \/ Visible(m))
                      /\ (chat_id = NoneVal \/ MatchesFilter(m)) =>
                            (emitted <=> (can_read_all \/ Visible(m)))

\* C16 witness: the setting, off when the call began, was switched on before
\* the lookup, and both updates of the page, a plain text of the group among
\* them, were returned
C16_Witness ==
    /\ hpc = "done" /\ lookup = "ok" /\ remote_flag /\ can_read_all
    /\ chat_id = NoneVal
    /\ Len(polled) = 2 /\ Len(messages) = 2
    /\ messages[1].message = Msg(TRUE, Hello, FALSE, -100, "group", "user", 1000)

-----------------------------------------------------------------------------
(***************************************************************************)
(* Bulk operators: delete_messages_bulk and spam_messages                  *)
(*                                                                         *)
(* The parent starts one multiprocessing.Process per item and then joins   *)
(* them in the order started.  A started process runs on its own: it       *)
(* issues its one remote call and later gets the answer.                   *)
(***************************************************************************)
\* message_id = start_message_id - i
TargetId_up(start, i) == start + i
TargetId(start, i) == start - i

\* p.join() returns once process p has ended
JoinReady_nowait(p) == TRUE
JoinReady(p) == processes[p].st = "finished"

\* _delete_single_message: what is printed for a result of delete_message
DeleteReport(outcome) ==
    IF outcome = "ok" THEN "deleted"
    ELSE IF outcome = "too_old" THEN "too_old"
    ELSE "failed"

\* how a remote call of a child may end: ok, the platform's "can't be deleted
\* for everyone" rejection, another ok=false answer, or a transport error
\* (which delete_message and send_message turn into {'ok': False, ...})
ChildOutcomes == {"ok", "too_old", "notok", "error"}

\* The largest count tried.
MaxCount == 5
BulkInputs ==
    {<<"delete", st, n>> : st \in {500, 2}, n \in 0..MaxCount}
        \cup {<<"spam", 0, n>> : n \in 0..MaxCount}

BulkInit ==
    /\ \E in \in BulkInputs :
          bop = in[1] /\ start_message_id = in[2] /\ count = in[3]
    /\ bpc = "spawn" /\ bi = 0 /\ processes = <<>> /\ issued = EmptyBag
    /\ ClassIdle /\ PollIdle /\ HistIdle /\ RemoteIdle /\ StartIdle /\ MenuIdle

\* one pass of "for i in range(count)": create the process, start it, keep it
BulkStart ==
    /\ bpc = "spawn" /\ bi < count
    /\ processes' = Append(processes,
          [message_id |-> IF bop = "delete"
                          THEN TargetId(start_message_id, bi) ELSE 0,
           st |-> "started", calls |-> 0, ok |-> FALSE, report |-> "none"])
    /\ bi' = bi + 1
    /\ UNCHANGED <<bop, start_message_id, count, bpc, issued>>
    /\ UNCHANGED <<classVars, pollVars, histVars, remoteVars, startVars, menuVars>>

\* range(count) is used up: on to the join loop
BulkStartDone ==
    /\ bpc = "spawn" /\ bi >= count
    /\ bpc' = "join" /\ bi' = 0
    /\ UNCHANGED <<bop, start_message_id, count, processes, issued>>
    /\ UNCHANGED <<classVars, pollVars, histVars, remoteVars, startVars, menuVars>>

\* a started process sends its request (requests.post in delete_message or
\* send_message)
ChildCall(p) ==
    /\ processes[p].st = "started"
    /\ issued' = issued (+) SetToBag({
          [method |-> IF bop = "delete" THEN "deleteMessage" ELSE "sendMessage",
           message_id |-> processes[p].message_id]})
    /\ processes' = [processes EXCEPT ![p].st = "calling",
                                      ![p].calls = processes[p].calls + 1]
    /\ UNCHANGED <<bop, start_message_id, count, bpc, bi>>
    /\ UNCHANGED <<classVars, pollVars, histVars, remoteVars, startVars, menuVars>>

\* its call comes back, or raises and is caught; the process prints and ends
ChildFinish(p, outcome) ==
    /\ processes[p].st = "calling"
    /\ processes' = [processes EXCEPT
          ![p].st = "finished",
          ![p].ok = (outcome = "ok"),
          ![p].report = IF bop = "delete" THEN DeleteReport(outcome) ELSE "none"]
    /\ UNCHANGED <<bop, start_message_id, count, bpc, bi, issued>>
    /\ UNCHANGED <<classVars, pollVars, histVars, remoteVars, startVars, menuVars>>

\* one pass of "for p in processes: p.join()"
BulkJoin ==
    /\ bpc = "join" /\ bi < Len(processes)
    /\ JoinReady(bi + 1)
    /\ bi' = bi + 1
    /\ UNCHANGED <<bop, start_message_id, count, bpc, processes, issued>>
    /\ UNCHANGED <<classVars, pollVars, histVars, remoteVars, startVars, menuVars>>

\* every process is joined: the bulk operation returns
BulkReturn ==
    /\ bpc = "join" /\ bi >= Len(processes)
    /\ bpc' = "returned"
    /\ UNCHANGED <<bop, start_message_id, count, bi, processes, issued>>
    /\ UNCHANGED <<classVars, pollVars, histVars, remoteVars, startVars, menuVars>>

ChildCallStep == \E p \in 1..Len(processes) : ChildCall(p)
ChildFinishStep ==
    \E p \in 1..Len(processes), outcome \in ChildOutcomes : ChildFinish(p, outcome)

BulkNext ==
    \/ BulkStart \/ BulkStartDone \/ ChildCallStep \/ ChildFinishStep
    \/ BulkJoin \/ BulkReturn
SpecBulk == BulkInit /\ [][BulkNext]_vars

\* the delete request for a message id
DeleteCall(id) == [method |-> "deleteMessage", message_id |-> id]

\* C7: delete_messages_bulk(chat_id, start, count) asks for the deletion of
\* each id start - i, 0 <= i < count, exactly once and of no other id, however
\* the launched processes interleave; start 500 and count 5 target exactly
\* 500, 499, 498, 497 and 496.
C7_BulkDeleteIds ==
    bop = "delete" =>
        /\ \A e \in BagToSet(issued) :
              /\ e.method = "deleteMessage"
              /\ \E i \in 0..(count - 1) : e.message_id = start_message_id - i
              /\ CopiesIn(e, issued) = 1
        /\ bpc = "returned" =>
              /\ \A i \in 0..(count - 1) :
                    CopiesIn(DeleteCall(start_message_id - i), issued) = 1
              /\ (start_message_id = 500 /\ count = 5) =>
                    BagToSet(issued) =
                        {DeleteCall(id) : id \in {500, 499, 498, 497, 496}}

\* C7 witness: the documented call has returned, its last-started process
\* having been the first to send its request
C7_Witness ==
    /\ bop = "delete" /\ start_message_id = 500 /\ count = 5
    /\ bpc = "returned"
    /\ CopiesIn(DeleteCall(496), issued) = 1

\* C8: both bulk operations launch exactly count processes, each of which
\* makes one remote call, and return only when every launched process has
\* ended, whatever the order of their steps and whatever their calls gave.
C8_LaunchAndJoin ==
    /\ Len(processes) <= count
    /\ bpc \in {"join", "returned"} => Len(processes) = count
    /\ \A p \in 1..Len(processes) :
          /\ processes[p].calls <= 1
          /\ processes[p].st \in {"calling", "finished"} => processes[p].calls = 1
    /\ bpc = "join" => \A p \in 1..bi : processes[p].st = "finished"
    /\ bpc = "returned" =>
          /\ \A p \in 1..Len(processes) :
                processes[p].st = "finished" /\ processes[p].calls = 1
          /\ BagCardinality(issued) = count

\* C8 witness: a bulk operation of three returned although one of its calls
\* succeeded and another failed
C8_Witness ==
    /\ bpc = "returned" /\ count = 3
    /\ \E p, q \in 1..Len(processes) : processes[p].ok /\ ~processes[q].ok

-----------------------------------------------------------------------------
(***************************************************************************)
(* The boundary of the remote calls                                        *)
(*                                                                         *)
(* A remote call ends "ok" (a JSON answer with ok=true), "notok" (a JSON   *)
(* answer with ok=false) or "error" (requests raised: a transport          *)
(* failure).  What an operation hands to its caller is a record            *)
(* [shape, ok]: a parsed answer ("dict"), the dict {'ok': False,           *)
(* 'error': ...} ("error_dict"), None ("none"), a URL or a file path, or   *)
(* nothing because the exception went on to the caller ("raised").         *)
(***************************************************************************)
CallOutcomes == {"ok", "notok", "error"}

\* try: return response.json()
\* except Exception as e: return {'ok': False, 'error': str(e)}
JsonOrErrorDict(outcome) ==
    IF outcome = "error" THEN [shape |-> "error_dict", ok |-> FALSE]
    ELSE [shape |-> "dict", ok |-> outcome = "ok"]

\* the operations written that way
SimpleOps == {"get_bot_info", "get_chat_info", "get_chat_member",
              "get_chat_administrators", "get_chat_member_count",
              "get_my_commands", "get_my_default_admin_rights",
              "send_message", "delete_message", "send_file"}

\* get_file_download_url: the URL, or None when ok is false or on an exception
get_file_download_url(outcome) ==
    IF outcome = "ok" THEN [shape |-> "url", ok |-> TRUE]
    ELSE [shape |-> "none", ok |-> FALSE]

\* download_file: None without a URL; else the path when the download
\* answered 200, None when it did not or an exception was caught
download_file(urlOutcome, getOutcome) ==
    IF get_file_download_url(urlOutcome).shape = "none"
    THEN [shape |-> "none", ok |-> FALSE]
    ELSE IF getOutcome = "ok" THEN [shape |-> "path", ok |-> TRUE]
    ELSE [shape |-> "none", ok |-> FALSE]

\* monitor_messages wraps its loop in "except KeyboardInterrupt" only: what
\* one pass of the loop leaves when its getUpdates request ended in outcome
MonitorPass(outcome) ==
    IF outcome = "error" THEN [shape |-> "raised", ok |-> FALSE]
    ELSE [shape |-> "none", ok |-> outcome = "ok"]

\* The number of remote operations a run of the menu makes.
MaxCalls == 2
\* the update_id of the last update of a monitored page
MonitorIds == {0, 7}

Logged(op, outcome, result) ==
    [op |-> op, outcome |-> outcome, result |-> result,
     raised |-> result.shape = "raised"]

RemoteInit ==
    /\ calls = <<>> /\ mpc = "menu" /\ moffset = NoneVal
    /\ ClassIdle /\ PollIdle /\ HistIdle /\ BulkIdle /\ StartIdle /\ MenuIdle

\* a menu action calls one of the simple operations
SimpleCall ==
    /\ mpc = "menu" /\ Len(calls) < MaxCalls
    /\ \E op \in SimpleOps, outcome \in CallOutcomes :
          calls' = Append(calls, Logged(op, outcome, JsonOrErrorDict(outcome)))
    /\ UNCHANGED <<mpc, moffset>>
    /\ UNCHANGED <<classVars, pollVars, histVars, bulkVars, startVars, menuVars>>

FileUrlCall ==
    /\ mpc = "menu" /\ Len(calls) < MaxCalls
    /\ \E outcome \in CallOutcomes :
          calls' = Append(calls, Logged("get_file_download_url", outcome,
                                        get_file_download_url(outcome)))
    /\ UNCHANGED <<mpc, moffset>>
    /\ UNCHANGED <<classVars, pollVars, histVars, bulkVars, startVars, menuVars>>

\* download_file: the getFile call and, with a URL, the download; the call
\* logged is the one that decided the result
DownloadCall ==
    /\ mpc = "menu" /\ Len(calls) < MaxCalls
    /\ \E urlOutcome \in CallOutcomes, getOutcome \in CallOutcomes :
          calls' = Append(calls,
              Logged("download_file",
                     IF urlOutcome = "ok" THEN getOutcome ELSE urlOutcome,
                     download_file(urlOutcome, getOutcome)))
    /\ UNCHANGED <<mpc, moffset>>
    /\ UNCHANGED <<classVars, pollVars, histVars, bulkVars, startVars, menuVars>>

\* menu choice 6: monitor_messages starts (offset = None; its get_bot_info
\* lookup is one of the simple operations and cannot raise)
MonitorStart ==
    /\ mpc = "menu" /\ Len(calls) < MaxCalls
    /\ mpc' = "monitor" /\ moffset' = NoneVal
    /\ UNCHANGED calls
    /\ UNCHANGED <<classVars, pollVars, histVars, bulkVars, startVars, menuVars>>

\* one pass of its while loop: the request, then the updates printed and the
\* offset moved past each, or the exception leaving monitor_messages and,
\* uncaught in interactive_menu and main, the program
MonitorPoll ==
    /\ mpc = "monitor" /\ Len(calls) < MaxCalls
    /\ \E outcome \in CallOutcomes, last \in MonitorIds, empty \in BOOLEAN :
          /\ calls' = Append(calls, Logged("monitor_messages", outcome,
                                           MonitorPass(outcome)))
          /\ mpc' = IF MonitorPass(outcome).shape = "raised"
                    THEN "crashed" ELSE "monitor"
          /\ moffset' = IF outcome = "ok" /\ ~empty
                        THEN IntVal(last + 1) ELSE moffset
    /\ UNCHANGED <<classVars, pollVars, histVars, bulkVars, startVars, menuVars>>

\* Ctrl+C: except KeyboardInterrupt, back to the menu
MonitorInterrupt ==
    /\ mpc = "monitor"
    /\ mpc' = "menu"
    /\ UNCHANGED <<calls, moffset>>
    /\ UNCHANGED <<classVars, pollVars, histVars, bulkVars, startVars, menuVars>>

RemoteNext ==
    \/ SimpleCall \/ FileUrlCall \/ DownloadCall
    \/ MonitorStart \/ MonitorPoll \/ MonitorInterrupt
SpecRemote == RemoteInit /\ [][RemoteNext]_vars

\* C6: no operation that makes a remote call lets a transport failure reach
\* its caller as an exception: each catches it inside its own boundary.  (The
\* claim adds that the failure is handed back in the {ok: false, error}
\* shape; the formula states the part about exceptions.)
C6_NeverPropagates ==
    /\ mpc # "crashed"
    /\ \A k \in 1..Len(calls) : calls[k].outcome = "error" => ~calls[k].raised

-----------------------------------------------------------------------------
(***************************************************************************)
(* Startup: load_env_file and main                                         *)
(***************************************************************************)
\* ---- str methods load_env_file uses
Whitespace == {" ", "\t", "\n"}
RECURSIVE LStrip(_, _)
LStrip(str, chars) ==
    IF str # <<>> /\ Head(str) \in chars THEN LStrip(Tail(str), chars) ELSE str
RECURSIVE RStrip(_, _)
RStrip(str, chars) ==
    IF str # <<>> /\ str[Len(str)] \in chars
    THEN RStrip(SubSeq(str, 1, Len(str) - 1), chars) ELSE str
\* str.strip() with chars = Whitespace, str.strip('"') with chars = {'"'}
Strip(str, chars) == RStrip(LStrip(str, chars), chars)
\* '=' in line
Contains(str, c) == \E k \in 1..Len(str) : str[k] = c
\* line.split('=', 1) of a line that contains '='
SplitFirst(str, c) ==
    LET k == CHOOSE i \in 1..Len(str) :
                 str[i] = c /\ \A j \in 1..(i - 1) : str[j] # c
    IN  <<SubSeq(str, 1, k - 1), SubSeq(str, k + 1, Len(str))>>

\* value.strip().strip('"').strip("'")
EnvValue_noquotes(value) == Strip(value, Whitespace)
EnvValue(value) == Strip(Strip(Strip(value, Whitespace), {"\""}), {"'"})

\* the dict after one more line of the file
ParseLine(dict, raw) ==
    LET line == Strip(raw, Whitespace)
    IN  IF line # <<>> /\ ~StartsWith(line, <<"#">>) /\ Contains(line, "=")
        THEN LET kv  == SplitFirst(line, "=")
                 key == Strip(kv[1], Whitespace)
             IN  [k \in DOMAIN dict \cup {key} |->
                     IF k = key THEN EnvValue(kv[2]) ELSE dict[k]]
        ELSE dict
RECURSIVE ParseLines(_, _)
\* for line in f: ...
ParseLines(dict, lines) ==
    IF lines = <<>> THEN dict
    ELSE ParseLines(ParseLine(dict, Head(lines)), Tail(lines))

\* env_vars.get(key): None, or the str
EnvGet(dict, key) ==
    IF key \in DOMAIN dict THEN [t |-> "str", v |-> dict[key]]
    ELSE [t |-> "none", v |-> <<>>]
\* the truth value of what env_vars.get returned: "not token" is its negation
EnvTruthy(x) == x.t = "str" /\ x.v # <<>>

TELEGRAM_BOT_TOKEN ==
    <<"T","E","L","E","G","R","A","M","_","B","O","T","_","T","O","K","E",
      "N">>
TELEGRAM_CHAT_ID ==
    <<"T","E","L","E","G","R","A","M","_","C","H","A","T","_","I","D">>

\* main gets past its two "if not ...: sys.exit(1)" checks
ConfigOk_tokenonly(dict) == EnvTruthy(EnvGet(dict, TELEGRAM_BOT_TOKEN))
ConfigOk(dict) ==
    /\ EnvTruthy(EnvGet(dict, TELEGRAM_BOT_TOKEN))
    /\ EnvTruthy(EnvGet(dict, TELEGRAM_CHAT_ID))

\* ---- the files tried
Abc == <<"a","b","c">>
Eq == <<"=">>
Nl == <<"\n">>
EnvLines ==
    {TELEGRAM_BOT_TOKEN \o Eq \o Abc \o Nl,
     TELEGRAM_BOT_TOKEN \o Eq \o Nl,
     TELEGRAM_BOT_TOKEN \o Eq \o <<"\"","\"">> \o Nl,
     <<" "," ">> \o TELEGRAM_BOT_TOKEN \o <<" ","="," ","'">> \o Abc \o <<"'"," ">> \o Nl,
     <<"#">> \o TELEGRAM_BOT_TOKEN \o Eq \o Abc \o Nl,
     TELEGRAM_BOT_TOKEN \o Nl,
     TELEGRAM_CHAT_ID \o Eq \o <<"5">> \o Nl,
     TELEGRAM_CHAT_ID \o Eq \o <<" ">> \o Nl,
     TELEGRAM_CHAT_ID \o Eq \o <<"\"","-","1","0","0","\"">> \o Nl,
     TELEGRAM_CHAT_ID \o Eq \o <<"a","=","b">> \o Nl,
     Nl,
     <<"X">> \o Eq \o <<"1">> \o Nl}
\* The most lines a file has.
MaxLines == 2
RECURSIVE FilesOfLen(_)
FilesOfLen(n) ==
    IF n = 0 THEN {<<>>}
    ELSE {Append(f, l) : f \in FilesOfLen(n - 1), l \in EnvLines}
EnvFiles ==
    {[exists |-> FALSE, lines |-> <<>>]}
        \cup {[exists |-> TRUE, lines |-> f] :
                 f \in UNION {FilesOfLen(n) : n \in 0..MaxLines}}

NoBotInfo == [ok |-> FALSE, has_result |-> FALSE, flag |-> "missing", error |-> FALSE]

StartupInit ==
    /\ spc = "start"
    /\ env_file \in EnvFiles
    /\ env_vars = <<>> /\ main_bot_info = NoBotInfo
    /\ exit_status = -1 /\ menu_reached = FALSE
    /\ ClassIdle /\ PollIdle /\ HistIdle /\ BulkIdle /\ RemoteIdle /\ MenuIdle

\* load_env_file: sys.exit(1) without a file, else the parsed dict
LoadEnv ==
    /\ spc = "start"
    /\ IF ~env_file.exists
       THEN spc' = "exited" /\ exit_status' = 1 /\ UNCHANGED env_vars
       ELSE /\ env_vars' = ParseLines(<<>>, env_file.lines)
            /\ spc' = "loaded" /\ UNCHANGED exit_status
    /\ UNCHANGED <<env_file, main_bot_info, menu_reached>>
    /\ UNCHANGED <<classVars, pollVars, histVars, bulkVars, remoteVars, menuVars>>

\* main's checks of token and chat_id and ThreatyBot(token), whose
\* os.makedirs may raise: the uncaught exception ends the process with
\* status 1
CheckConfig ==
    /\ spc = "loaded"
    /\ \E made \in BOOLEAN :
          IF ConfigOk(env_vars) /\ made
          THEN spc' = "connect" /\ UNCHANGED exit_status
          ELSE spc' = "exited" /\ exit_status' = 1
    /\ UNCHANGED <<env_file, env_vars, main_bot_info, menu_reached>>
    /\ UNCHANGED <<classVars, pollVars, histVars, bulkVars, remoteVars, menuVars>>

\* main's connection test, the print of bot_info['result'][...] (a KeyError
\* when the answer has no complete result) and the call of interactive_menu
TestConnection ==
    /\ spc = "connect"
    /\ \E resp \in BotInfoResponses, complete \in BOOLEAN :
          /\ main_bot_info' = get_bot_info(resp)
          /\ IF ~main_bot_info'.ok \/ ~complete
             THEN spc' = "exited" /\ exit_status' = 1 /\ UNCHANGED menu_reached
             ELSE spc' = "menu" /\ menu_reached' = TRUE /\ UNCHANGED exit_status
    /\ UNCHANGED <<env_file, env_vars>>
    /\ UNCHANGED <<classVars, pollVars, histVars, bulkVars, remoteVars, menuVars>>

\* choice '0': interactive_menu returns, main ends
MenuExit ==
    /\ spc = "menu"
    /\ spc' = "exited" /\ exit_status' = 0
    /\ UNCHANGED <<env_file, env_vars, main_bot_info, menu_reached>>
    /\ UNCHANGED <<classVars, pollVars, histVars, bulkVars, remoteVars, menuVars>>

StartupNext == LoadEnv \/ CheckConfig \/ TestConnection \/ MenuExit
SpecStartup == StartupInit /\ [][StartupNext]_vars

\* ---- the configuration as the claim speaks of it
\* the value the file gives a key: that of the last line that assigns it
MissingOrEmpty(key) ==
    \/ key \notin DOMAIN env_vars
    \/ env_vars[key] = <<>>
\* the process ended before the menu, with a nonzero status
FatalSoFar ==
    /\ ~menu_reached
    /\ spc \in {"start", "loaded", "exited"}
    /\ spc = "exited" => exit_status > 0

\* C11: without the file .env, or with the bot token or the chat id missing
\* or empty in it, startup is fatal: the process gets no further than the
\* checks and exits with a nonzero status; the menu is entered only when both
\* values are there and the first bot lookup reported ok.
C11_FatalStartup ==
    /\ ~env_file.exists => FatalSoFar /\ spc # "loaded"
    /\ (spc # "start" /\ (MissingOrEmpty(TELEGRAM_BOT_TOKEN)
                            \/ MissingOrEmpty(TELEGRAM_CHAT_ID))) => FatalSoFar
    /\ spc = "menu" => menu_reached
    /\ menu_reached =>
          /\ env_file.exists
          /\ ~MissingOrEmpty(TELEGRAM_BOT_TOKEN)
          /\ ~MissingOrEmpty(TELEGRAM_CHAT_ID)
          /\ main_bot_info.ok
    /\ (spc = "exited" /\ ~menu_reached) => exit_status > 0
    /\ env_file.lines = <<TELEGRAM_BOT_TOKEN \o Eq \o Abc \o Nl,
                          TELEGRAM_CHAT_ID \o Eq \o <<" ">> \o Nl>>
          => FatalSoFar

\* C11 witness: a file with the token and an empty chat id ended the process
\* with status 1 at the check
C11_Witness ==
    /\ env_file.exists
    /\ env_file.lines = <<TELEGRAM_BOT_TOKEN \o Eq \o Abc \o Nl,
                          TELEGRAM_CHAT_ID \o Eq \o <<" ">> \o Nl>>
    /\ ~MissingOrEmpty(TELEGRAM_BOT_TOKEN) /\ MissingOrEmpty(TELEGRAM_CHAT_ID)
    /\ spc = "exited" /\ exit_status = 1 /\ ~menu_reached

-----------------------------------------------------------------------------
(***************************************************************************)
(* The menu's delete action (choice '9'): get_latest_message_id, then      *)
(* delete_messages_bulk from the id it returned                            *)
(***************************************************************************)
\* the ids of the messages the chat holds before the action
ExistingIds == {1, 2, 3}
\* the ids the platform may give the probe message: above every id in use
ProbeIds == {4, 5}

\* what send_message(chat_id, ".") may return: the error dict of its except
\* branch, an ok=false answer, an ok answer with the message, and an ok
\* answer without 'result'
SendResponses ==
    {[kind |-> k, message_id |-> 0] : k \in {"error", "notok", "ok_noresult"}}
        \cup {[kind |-> "ok", message_id |-> id] : id \in ProbeIds}

\* test_response.get("ok")
SendOk(test_response) == test_response.kind \in {"ok", "ok_noresult"}
SendCall(test_response) ==
    [method |-> "sendMessage", message_id |-> test_response.message_id,
     ok |-> SendOk(test_response)]

\* get_latest_message_id with the answers its remote calls get: what it
\* returns, whether it raised (the KeyError of test_response['result']), and
\* the remote calls it made
get_latest_message_id_nodelete(test_response, deleted) ==
    IF test_response.kind = "ok"
    THEN [returns |-> IntVal(test_response.message_id), raised |-> FALSE,
          calls |-> <<SendCall(test_response)>>]
    ELSE [returns |-> NoneVal, raised |-> test_response.kind = "ok_noresult",
          calls |-> <<SendCall(test_response)>>]
get_latest_message_id(test_response, deleted) ==
    IF ~SendOk(test_response)
    THEN [returns |-> NoneVal, raised |-> FALSE,
          calls |-> <<SendCall(test_response)>>]
    ELSE IF test_response.kind = "ok_noresult"
    THEN [returns |-> NoneVal, raised |-> TRUE,
          calls |-> <<SendCall(test_response)>>]
    ELSE [returns |-> IntVal(test_response.message_id), raised |-> FALSE,
          calls |-> <<SendCall(test_response),
                      [method |-> "deleteMessage",
                       message_id |-> test_response.message_id,
                       ok |-> deleted = "ok"]>>]

\* the numbers typed at "Number to delete"
CountInputs == -1..MaxCount

MenuDeleteInit ==
    /\ dpc = "choice9" /\ latest_id = NoneVal /\ probe_calls = <<>>
    /\ ClassIdle /\ PollIdle /\ HistIdle /\ BulkIdle /\ RemoteIdle /\ StartIdle

\* latest_id = self.get_latest_message_id(chat_id)
GetLatestMessageId ==
    /\ dpc = "choice9"
    /\ \E test_response \in SendResponses, deleted \in ChildOutcomes :
          LET r == get_latest_message_id(test_response, deleted)
          IN  /\ latest_id' = r.returns
              /\ probe_calls' = r.calls
              /\ dpc' = IF r.raised THEN "crashed" ELSE "probed"
    /\ UNCHANGED <<classVars, pollVars, histVars, bulkVars, remoteVars, startVars>>

\* if latest_id: count = input(...); delete_messages_bulk(chat_id, latest_id,
\* int(count)) is entered
MenuBulkDelete ==
    /\ dpc = "probed" /\ Truthy(latest_id)
    /\ \E n \in CountInputs : count' = n
    /\ bop' = "delete" /\ start_message_id' = latest_id.i
    /\ bpc' = "spawn" /\ bi' = 0 /\ processes' = <<>> /\ issued' = EmptyBag
    /\ dpc' = "bulk"
    /\ UNCHANGED <<latest_id, probe_calls>>
    /\ UNCHANGED <<classVars, pollVars, histVars, remoteVars, startVars>>

\* int(count) raises ValueError on what was typed
MenuBadCount ==
    /\ dpc = "probed" /\ Truthy(latest_id)
    /\ dpc' = "crashed"
    /\ UNCHANGED <<latest_id, probe_calls>>
    /\ UNCHANGED <<classVars, pollVars, histVars, bulkVars, remoteVars, startVars>>

\* else: print("Could not get latest message ID")
MenuNoLatest ==
    /\ dpc = "probed" /\ ~Truthy(latest_id)
    /\ dpc' = "menu"
    /\ UNCHANGED <<latest_id, probe_calls>>
    /\ UNCHANGED <<classVars, pollVars, histVars, bulkVars, remoteVars, startVars>>

\* delete_messages_bulk returned: back in the menu loop
MenuBulkDone ==
    /\ dpc = "bulk" /\ bpc = "returned"
    /\ dpc' = "menu"
    /\ UNCHANGED <<latest_id, probe_calls>>
    /\ UNCHANGED <<classVars, pollVars, histVars, bulkVars, remoteVars, startVars>>

MenuDeleteNext ==
    \/ GetLatestMessageId \/ MenuBulkDelete \/ MenuBadCount \/ MenuNoLatest
    \/ BulkStart \/ BulkStartDone \/ ChildCallStep \/ ChildFinishStep
    \/ BulkJoin \/ BulkReturn \/ MenuBulkDone
SpecMenuDelete == MenuDeleteInit /\ [][MenuDeleteNext]_vars

\* ---- the action as the claim speaks of it
\* the probe send reported ok
ProbeOk == probe_calls # <<>> /\ probe_calls[1].ok
\* the delete requests get_latest_message_id made for an id
ProbeDeletes(id) ==
    Cardinality({k \in 1..Len(probe_calls) :
                    /\ probe_calls[k].method = "deleteMessage"
                    /\ probe_calls[k].message_id = id})
\* delete_messages_bulk was entered
BulkStarted == bop = "delete"
\* the messages from before the action that the bulk delete has targeted
TargetedExisting ==
    {processes[p].message_id : p \in 1..Len(processes)} \cap ExistingIds
\* get_latest_message_id: an id only after an ok probe and one delete request
\* for it, nothing and no delete after a failed probe; the bulk delete only
\* after an ok probe and from the probe's id
ProbeContract ==
    /\ dpc = "choice9" => probe_calls = <<>> /\ latest_id = NoneVal
    /\ dpc # "choice9" =>
          /\ probe_calls # <<>> /\ probe_calls[1].method = "sendMessage"
          /\ \A k \in 2..Len(probe_calls) : probe_calls[k].method = "deleteMessage"
    /\ latest_id # NoneVal =>
          /\ ProbeOk
          /\ latest_id = IntVal(probe_calls[1].message_id)
          /\ ProbeDeletes(latest_id.i) = 1 /\ Len(probe_calls) = 2
    /\ (dpc # "choice9" /\ ~ProbeOk) =>
          /\ latest_id = NoneVal /\ Len(probe_calls) = 1
          /\ ~BulkStarted /\ processes = <<>> /\ issued = EmptyBag
    /\ BulkStarted =>
          /\ ProbeOk /\ latest_id # NoneVal
          /\ start_message_id = probe_calls[1].message_id
          /\ \A id \in ExistingIds : start_message_id > id
    /\ \A c \in BagToSet(issued) : c.method = "deleteMessage"

\* C17 as stated: ... and with count n the bulk delete targets at most n - 1
\* messages that existed before the action, whatever n is.
C17_AsStated ==
    /\ ProbeContract
    /\ BulkStarted => Cardinality(TargetedExisting) <= count - 1

\* C17: get_latest_message_id returns an id only when its probe send reported
\* ok, after exactly one delete request for that id, whether or not the
\* delete succeeded; after a failed probe it returns nothing and requests no
\* delete.  The menu's bulk delete starts only after an ok probe, at the
\* probe's own id, and with a count n of 1 or more it targets at most n - 1
\* messages from before the action, with a count of 0 or less none.
C17_ProbeThenDelete ==
    /\ ProbeContract
    /\ BulkStarted =>
          /\ count >= 1 => Cardinality(TargetedExisting) <= count - 1
          /\ count <= 0 => processes = <<>>

\* C17 witness: the probe got id 4, its delete failed, and the bulk delete
\* with count 3 has requested the deletes of 4, 3 and 2
C17_Witness ==
    /\ dpc = "menu" /\ BulkStarted /\ count = 3
    /\ latest_id = IntVal(4)
    /\ probe_calls[2] = [method |-> "deleteMessage", message_id |-> 4, ok |-> FALSE]
    /\ TargetedExisting = {3, 2}
    /\ BagToSet(issued) = {DeleteCall(4), DeleteCall(3), DeleteCall(2)}

=============================================================================
